---- MODULE Spec2Model ----
(***************************************************************************)
(* Course-management views of courses/views.py as a state machine over the *)
(* persistent store.  One action per request handler (dispatch included);  *)
(* every action records the request it served and the response it gave.    *)
(***************************************************************************)
EXTENDS Integers, FiniteSets, Sequences, TLC

\* ---------------------------------------------------------------- bounds
MaxCourses == 2
MaxModules == 2
MaxContents == 2
MaxItemId == 1
MaxOrder == 1
MaxExtra == 1

\* ------------------------------------------------------------ input sets
Actors == {"u1", "u2", "u3"}

\* Permission grants of the authenticated actors (auth tables; no view of
\* this module changes them).
Grants == [u1 |-> {"add_course", "change_course", "delete_course"},
           u2 |-> {"add_course"},
           u3 |-> {}]

Titles == {"a", "b"}

CourseIds == 1..MaxCourses
ModuleIds == 1..MaxModules
ContentIds == 1..MaxContents
ItemIds == 1..MaxItemId
Orders == 0..MaxOrder

\* views.py:140, the allow-list of get_model
AllowedModels == {"text", "video", "image", "file"}

NoId == 0

\* The store, one function per table, from the ids in use to the rows:
\*   courses   id -> [owner, title]
\*   modules   id -> [course, title, order]
\*   contents  id -> [module, ctype, oid, order]; (ctype, oid) is the generic
\*             reference `item`
\*   items     <<type tag, id>> -> [owner, title], the Text/Video/Image/File rows
\* and the request served last with the response it was given.
VARIABLES courses, modules, contents, items, request, response

db == <<courses, modules, contents, items>>
vars == <<courses, modules, contents, items, request, response>>

\* ------------------------------------------------------------- helpers
Remove(f, S) == [x \in DOMAIN f \ S |-> f[x]]

Put(f, k, v) == [x \in DOMAIN f \cup {k} |-> IF x = k THEN v ELSE f[x]]

Req(op, actor, id, arg) == [op |-> op, actor |-> actor, id |-> id, arg |-> arg]

Resp(status, to, id) == [status |-> status, to |-> to, id |-> id, listed |-> {}]

NotFound == Resp("not_found", "none", NoId)
Forbidden == Resp("forbidden", "none", NoId)
ServerError == Resp("error", "none", NoId)
Render == Resp("render", "none", NoId)
RedirectCourseList == Resp("redirect", "manage_course_list", NoId)
RedirectContentList(m) == Resp("redirect", "module_content_list", m)
JsonSaved == Resp("json_saved_ok", "none", NoId)

\* Mutant of get_queryset: the owner filter dropped.
UnfilteredQueryset(a) == DOMAIN courses

\* OwnerMixin.get_queryset for requester a: qs.filter(owner=self.request.user)
get_queryset(a) == {c \in DOMAIN courses : courses[c].owner = a}

\* Module.objects.filter(course__owner=user)
OwnedModules(a) == {m \in DOMAIN modules : modules[m].course \in get_queryset(a)}

\* Content.objects.filter(module__course__owner=user)
OwnedContents(a) == {k \in DOMAIN contents : contents[k].module \in OwnedModules(a)}

ItemKey(k) == <<contents[k].ctype, contents[k].oid>>

Init ==
    /\ courses = <<>>
    /\ modules = <<>>
    /\ contents = <<>>
    /\ items = <<>>
    /\ request = Req("none", "u1", NoId, <<>>)
    /\ response = Resp("none", "none", NoId)

\* Submitted forms: a valid one per title of T, and an invalid one if V allows.
Forms(T, V) ==
    {[title |-> t, valid |-> TRUE] : t \in T}
    \cup {[title |-> "a", valid |-> FALSE] : v \in V \ {TRUE}}

\* ManageCourseListView.get: the owner's courses
ManageCourseList(a) ==
    /\ request' = Req("manage_course_list", a, NoId, <<>>)
    /\ response' = [Resp("ok", "none", NoId) EXCEPT !.listed = get_queryset(a)]
    /\ UNCHANGED db

\* PermissionRequiredMixin.has_permission for an authenticated actor
HasPerm(a, perm) == perm \in Grants[a]

\* CourseCreateView (PermissionRequiredMixin, OwnerCourseEditMixin, CreateView),
\* POST: permission check, form validation, OwnerEditMixin.form_valid, save.
CourseCreate(a, t, valid) ==
    /\ request' = Req("course_create", a, NoId, [title |-> t, valid |-> valid])
    /\ IF ~HasPerm(a, "add_course")
       THEN /\ response' = Forbidden
            /\ UNCHANGED db
       ELSE IF ~valid
       THEN /\ response' = Render
            /\ UNCHANGED db
       ELSE /\ \E c \in CourseIds \ DOMAIN courses :
                 courses' = Put(courses, c, [owner |-> a, title |-> t])
            /\ response' = RedirectCourseList
            /\ UNCHANGED <<modules, contents, items>>

\* CourseUpdateView (OwnerCourseEditMixin, UpdateView), POST: get_object over
\* OwnerMixin.get_queryset, form validation, OwnerEditMixin.form_valid, save.
\* No PermissionRequiredMixin is among its bases: permission_required (line 87)
\* is read by nothing.
CourseUpdate(a, c, t, valid) ==
    /\ request' = Req("course_update", a, c, [title |-> t, valid |-> valid])
    /\ IF c \notin get_queryset(a)
       THEN /\ response' = NotFound
            /\ UNCHANGED db
       ELSE IF ~valid
       THEN /\ response' = Render
            /\ UNCHANGED db
       ELSE /\ courses' = [courses EXCEPT ![c] = [owner |-> a, title |-> t]]
            /\ response' = RedirectCourseList
            /\ UNCHANGED <<modules, contents, items>>

\* Storage-layer cascade of a Module deletion: its Content rows go, the typed
\* items they point to stay (a generic reference has no cascade to its target).
CascadeContents(ms) == Remove(contents, {k \in DOMAIN contents : contents[k].module \in ms})

\* Storage-layer cascade of a Course deletion: its Modules go.
CascadeModules(c) == {m \in DOMAIN modules : modules[m].course = c}

\* CourseDeleteView (OwnerCourseMixin, DeleteView), POST: get_object over
\* OwnerMixin.get_queryset, delete, redirect.  No PermissionRequiredMixin.
CourseDelete(a, c) ==
    /\ request' = Req("course_delete", a, c, <<>>)
    /\ IF c \notin get_queryset(a)
       THEN /\ response' = NotFound
            /\ UNCHANGED db
       ELSE /\ courses' = Remove(courses, {c})
            /\ modules' = Remove(modules, CascadeModules(c))
            /\ contents' = CascadeContents(CascadeModules(c))
            /\ response' = RedirectCourseList
            /\ UNCHANGED items

\* ------------------------------------------------------ module formset
ModulesOf(mods, c) == {m \in DOMAIN mods : mods[m].course = c}

Max(S) == CHOOSE x \in S : \A y \in S : y <= x

\* Order the storage layer gives a Module saved without one: appended after
\* the last Module of its Course, 0 for the first.
NextOrder(mods, c) ==
    IF ModulesOf(mods, c) = {} THEN 0
    ELSE Max({mods[m].order : m \in ModulesOf(mods, c)}) + 1

\* A row bound to an existing Module: marked for deletion (not validated), or
\* carrying the submitted title and the outcome of its validation.
InitialRows(T, V, D) ==
    {[del |-> TRUE, title |-> "a", valid |-> TRUE] : d \in D \cap {TRUE}}
    \cup {[del |-> FALSE, title |-> f.title, valid |-> f.valid] : f \in Forms(T, V)}

\* A filled-in extra row (a new Module).
ExtraRows(T, V) == Forms(T, V)

\* The submissions a client can post for course c: one row per Module of c,
\* and up to MaxExtra new rows.
Submissions(c, T, V, D) ==
    {[initial |-> i, extra |-> e] :
        i \in [ModulesOf(modules, c) -> InitialRows(T, V, D)],
        e \in UNION {[1..n -> ExtraRows(T, V)] : n \in 0..MaxExtra}}

\* formset.is_valid(): every row that is not marked for deletion validates
FormsetIsValid(sub) ==
    /\ \A m \in DOMAIN sub.initial : sub.initial[m].valid
    /\ \A i \in DOMAIN sub.extra : sub.extra[i].valid

Deleted(sub) == {m \in DOMAIN sub.initial : sub.initial[m].del}

\* formset.save(), existing rows: delete the marked ones, save the others
SaveExisting(mods, sub) ==
    [m \in DOMAIN mods \ Deleted(sub) |->
        IF m \in DOMAIN sub.initial
        THEN [mods[m] EXCEPT !.title = sub.initial[m].title]
        ELSE mods[m]]

\* formset.save(), new rows, in order: each gets a fresh id and the next order
RECURSIVE SaveNew(_, _, _, _, _)
SaveNew(mods, c, rows, ids, i) ==
    IF i > Len(rows) THEN mods
    ELSE SaveNew(Put(mods, ids[i],
                     [course |-> c, title |-> rows[i].title,
                      order |-> NextOrder(mods, c)]),
                 c, rows, ids, i + 1)

FreshIds(used, all, n) ==
    {ids \in [1..n -> all \ used] : \A i, j \in 1..n : i # j => ids[i] # ids[j]}

\* CourseModuleUpdateView.get: dispatch resolves the course, then renders
CourseModuleGet(a, pk) ==
    /\ request' = Req("module_formset_get", a, pk, <<>>)
    /\ response' = IF pk \in get_queryset(a) THEN Render ELSE NotFound
    /\ UNCHANGED db

\* formset.save() and the redirect that follows it (lines 123-125)
FormsetSave(pk, sub) ==
    /\ \E ids \in FreshIds(DOMAIN modules, ModuleIds, Len(sub.extra)) :
          /\ modules' = SaveNew(SaveExisting(modules, sub), pk, sub.extra, ids, 1)
          /\ \A m \in DOMAIN modules' : modules'[m].order <= MaxOrder
    /\ contents' = CascadeContents(Deleted(sub))
    /\ response' = RedirectCourseList
    /\ UNCHANGED <<courses, items>>

\* Mutant of FormsetPost: the formset saved without asking is_valid().
FormsetPostUnchecked(pk, sub) == FormsetSave(pk, sub)

\* CourseModuleUpdateView.post after dispatch found the course
FormsetPost(pk, sub) ==
    IF FormsetIsValid(sub)
    THEN FormsetSave(pk, sub)
    ELSE /\ response' = Render
         /\ UNCHANGED db

\* CourseModuleUpdateView.dispatch + post
CourseModulePost(a, pk, T, V, D) ==
    IF pk \notin get_queryset(a)
    THEN /\ request' = Req("module_formset", a, pk, <<>>)
         /\ response' = NotFound
         /\ UNCHANGED db
    ELSE \E sub \in Submissions(pk, T, V, D) :
         /\ request' = Req("module_formset", a, pk, sub)
         /\ FormsetPost(pk, sub)

\* ------------------------------------------------------------- content
\* ContentCreateUpdateView.get_model: the model class of an allowed tag, else None
get_model(model_name) == IF model_name \in AllowedModels THEN model_name ELSE "None"

ContentsOf(cts, m) == {k \in DOMAIN cts : cts[k].module = m}

\* Order the storage layer gives a Content created without one: appended after
\* the last Content of its Module, 0 for the first.
NextContentOrder(cts, m) ==
    IF ContentsOf(cts, m) = {} THEN 0
    ELSE Max({cts[k].order : k \in ContentsOf(cts, m)}) + 1

\* Mutant of OwnedItem: the item looked up by id alone.
AnyItem(a, model, id) == <<model, id>> \in DOMAIN items

\* get_object_or_404(self.model, id=id, owner=request.user), model not None
OwnedItem(a, model, id) ==
    /\ <<model, id>> \in DOMAIN items
    /\ items[<<model, id>>].owner = a

\* What ContentCreateUpdateView.dispatch ends with before the method handler
\* runs: "not_found" (the module, or the item, is not the requester's),
\* "error" (get_object_or_404 on a None model raises ValueError), else "ok".
dispatch(a, module_id, model_name, id) ==
    IF module_id \notin OwnedModules(a) THEN "not_found"
    ELSE IF id = NoId THEN "ok"
    ELSE IF get_model(model_name) = "None" THEN "error"
    ELSE IF OwnedItem(a, get_model(model_name), id) THEN "ok"
    ELSE "not_found"

\* ContentCreateUpdateView.get_form: whether a form is returned; building a
\* ModelForm for a None model raises ValueError
get_form(model) == model # "None"

\* ContentCreateUpdateView.dispatch + get
ContentGet(a, module_id, model_name, id) ==
    /\ request' = Req("content_get", a, id, [module |-> module_id, model_name |-> model_name])
    /\ response' =
          IF dispatch(a, module_id, model_name, id) = "not_found" THEN NotFound
          ELSE IF dispatch(a, module_id, model_name, id) = "error" THEN ServerError
          ELSE IF ~get_form(get_model(model_name)) THEN ServerError
          ELSE Render
    /\ UNCHANGED db

\* Mutant of CreateContent: the typed item saved, the Content wrapper skipped.
CreateItemOnly(a, module_id, model, t) ==
    \E oid \in ItemIds :
        /\ <<model, oid>> \notin DOMAIN items
        /\ items' = Put(items, <<model, oid>>, [owner |-> a, title |-> t])
        /\ contents' = contents

\* ContentCreateUpdateView.post, valid form, no id: the typed item is saved
\* with owner = requester, then wrapped in a new Content of the module.
CreateContent(a, module_id, model, t) ==
    \E oid \in ItemIds, k \in ContentIds :
        /\ <<model, oid>> \notin DOMAIN items
        /\ k \notin DOMAIN contents
        /\ NextContentOrder(contents, module_id) <= MaxOrder
        /\ items' = Put(items, <<model, oid>>, [owner |-> a, title |-> t])
        /\ contents' = Put(contents, k,
                           [module |-> module_id, ctype |-> model, oid |-> oid,
                            order |-> NextContentOrder(contents, module_id)])

\* ContentCreateUpdateView.post, valid form, id given: the item is saved with
\* the submitted fields and owner = requester; no Content is created.
UpdateItem(a, model, id, t) ==
    /\ items' = [items EXCEPT ![<<model, id>>] = [owner |-> a, title |-> t]]
    /\ contents' = contents

\* ContentCreateUpdateView.dispatch + post
ContentPost(a, module_id, model_name, id, t, valid) ==
    /\ request' = Req("content_post", a, id,
                      [module |-> module_id, model_name |-> model_name,
                       title |-> t, valid |-> valid])
    /\ IF dispatch(a, module_id, model_name, id) = "not_found"
       THEN /\ response' = NotFound
            /\ UNCHANGED db
       ELSE IF \/ dispatch(a, module_id, model_name, id) = "error"
               \/ ~get_form(get_model(model_name))
       THEN /\ response' = ServerError
            /\ UNCHANGED db
       ELSE IF ~valid
       THEN /\ response' = Render
            /\ UNCHANGED db
       ELSE /\ IF id = NoId
               THEN CreateContent(a, module_id, get_model(model_name), t)
               ELSE UpdateItem(a, get_model(model_name), id, t)
            /\ response' = RedirectContentList(module_id)
            /\ UNCHANGED <<courses, modules>>

\* Line 195 of ContentDeleteView.post: redirect('module_content_list',
\* module.id).  No name `module` is bound in the method or the file's globals
\* (the model class is Module), so evaluating the argument raises NameError.
DeleteRedirect(k) == ServerError

\* Mutant of DeleteItem: the typed item left behind.
KeepItem(its, key) == its

\* content.item.delete()
DeleteItem(its, key) == Remove(its, {key})

\* ContentDeleteView.post: the Content is resolved through
\* module__course__owner, its item deleted, then the Content itself; both
\* deletions are committed when line 195 is reached.
ContentDelete(a, k) ==
    /\ request' = Req("content_delete", a, k, <<>>)
    /\ IF k \notin OwnedContents(a)
       THEN /\ response' = NotFound
            /\ UNCHANGED db
       ELSE IF ItemKey(k) \notin DOMAIN items
       THEN /\ response' = ServerError
            /\ UNCHANGED db
       ELSE /\ items' = DeleteItem(items, ItemKey(k))
            /\ contents' = Remove(contents, {k})
            /\ response' = DeleteRedirect(k)
            /\ UNCHANGED <<courses, modules>>

\* ------------------------------------------------------------ ordering
\* request_json of an ordering call: a mapping from ids to orders
OrderMaps(ids, O) == UNION {[S -> O] : S \in SUBSET ids}

\* Mutant of UpdateOrder: the owner traversal dropped from the filter.
UpdateOrderUnscoped(tbl, owned, id, order) ==
    IF id \in DOMAIN tbl THEN [tbl EXCEPT ![id].order = order] ELSE tbl

\* One pass of the loop `for id, order in self.request_json.items()`:
\* <table>.objects.filter(id=id, <owner traversal>=user).update(order=order)
UpdateOrder(tbl, owned, id, order) ==
    IF id \in owned THEN [tbl EXCEPT ![id].order = order] ELSE tbl

RECURSIVE OrderLoop(_, _, _, _)
OrderLoop(tbl, owned, json, todo) ==
    IF todo = {} THEN tbl
    ELSE LET id == CHOOSE x \in todo : TRUE
         IN OrderLoop(UpdateOrder(tbl, owned, id, json[id]), owned, json, todo \ {id})

\* Mutant of ModuleOrder: the id dropped from the filter, so that each pass of
\* the loop writes its order to every Module of the requester.
ModuleOrderNoIdFilter(a, json) ==
    /\ request' = Req("module_order", a, NoId, json)
    /\ \/ /\ DOMAIN json = {}
          /\ modules' = modules
       \/ \E last \in DOMAIN json :
             modules' = [m \in DOMAIN modules |->
                            IF m \in OwnedModules(a)
                            THEN [modules[m] EXCEPT !.order = json[last]]
                            ELSE modules[m]]
    /\ response' = JsonSaved
    /\ UNCHANGED <<courses, contents, items>>

\* ModuleOrderView.post
ModuleOrder(a, json) ==
    /\ request' = Req("module_order", a, NoId, json)
    /\ modules' = OrderLoop(modules, OwnedModules(a), json, DOMAIN json)
    /\ response' = JsonSaved
    /\ UNCHANGED <<courses, contents, items>>

\* ContentOrderView.post
ContentOrder(a, json) ==
    /\ request' = Req("content_order", a, NoId, json)
    /\ contents' = OrderLoop(contents, OwnedContents(a), json, DOMAIN json)
    /\ response' = JsonSaved
    /\ UNCHANGED <<courses, modules, items>>

\* ------------------------------------------------------- specifications
\* The actors that can come to own a course (they hold add_course).
Owners == {"u1", "u2"}

\* Requests to the course views by the actors A, with form titles T and form
\* validation outcomes V.
CourseReqs(A, T, V) ==
    \/ \E a \in A : ManageCourseList(a)
    \/ \E a \in A, f \in Forms(T, V) : CourseCreate(a, f.title, f.valid)
    \/ \E a \in A, c \in CourseIds, f \in Forms(T, V) : CourseUpdate(a, c, f.title, f.valid)
    \/ \E a \in A, c \in CourseIds : CourseDelete(a, c)

\* Requests to the module formset view; D holds the values the rows' DELETE
\* flags are drawn from.
FormsetReqs(A, T, V, D) ==
    \/ \E a \in A, pk \in CourseIds : CourseModuleGet(a, pk)
    \/ \E a \in A, pk \in CourseIds : CourseModulePost(a, pk, T, V, D)

\* Requests to the content create/update view, with type tags N.
ContentEditReqs(A, T, V, N) ==
    \/ \E a \in A, m \in ModuleIds, n \in N, id \in {NoId} \cup ItemIds :
          ContentGet(a, m, n, id)
    \/ \E a \in A, m \in ModuleIds, n \in N, id \in {NoId} \cup ItemIds,
          f \in Forms(T, V) : ContentPost(a, m, n, id, f.title, f.valid)

ContentDeleteReqs(A) == \E a \in A, k \in ContentIds : ContentDelete(a, k)

\* Requests to the ordering views, with submitted orders O.
ModuleOrderReqs(A, O) == \E a \in A, json \in OrderMaps(ModuleIds, O) : ModuleOrder(a, json)

ContentOrderReqs(A, O) == \E a \in A, json \in OrderMaps(ContentIds, O) : ContentOrder(a, json)

\* Courses and modules created by the owners and never deleted.
Setup ==
    \/ \E a \in Owners : CourseCreate(a, "a", TRUE)
    \/ \E a \in Owners, pk \in CourseIds : CourseModulePost(a, pk, {"a"}, {TRUE}, {FALSE})

\* Every handler, by the owners, each with one valid form value.
Next ==
    \/ CourseReqs(Owners, {"a"}, {TRUE})
    \/ FormsetReqs(Owners, {"a"}, {TRUE}, BOOLEAN)
    \/ ContentEditReqs(Owners, {"a"}, {TRUE}, {"text"})
    \/ ContentDeleteReqs(Owners)
    \/ ModuleOrderReqs(Owners, {0})
    \/ ContentOrderReqs(Owners, {0})

Spec == Init /\ [][Next]_vars

\* The course views with every actor and form input.
NextCourse == CourseReqs(Actors, Titles, BOOLEAN)

SpecCourse == Init /\ [][NextCourse]_vars

\* The module formset and module ordering with every input; courses are
\* created and deleted by their owners.
NextModule ==
    \/ \E a \in Owners : CourseCreate(a, "a", TRUE)
    \/ \E a \in Owners, c \in CourseIds : CourseDelete(a, c)
    \/ FormsetReqs(Owners, Titles, BOOLEAN, BOOLEAN)
    \/ ModuleOrderReqs(Owners, Orders)

SpecModule == Init /\ [][NextModule]_vars

\* The content create/update view with every input.
NextContentEdit ==
    \/ Setup
    \/ ContentEditReqs(Owners, Titles, BOOLEAN, {"text", "spreadsheet"})

SpecContentEdit == Init /\ [][NextContentEdit]_vars

\* Content requests of every kind: create, update, delete.
NextContent ==
    \/ Setup
    \/ ContentEditReqs(Owners, {"a"}, {TRUE}, {"text", "image"})
    \/ ContentDeleteReqs(Actors)

SpecContent == Init /\ [][NextContent]_vars

\* The two ordering views with every mapping, over modules and contents of
\* both owners.
NextOrdering ==
    \/ Setup
    \/ \E a \in Owners, m \in ModuleIds, n \in {"text", "image"} :
          ContentPost(a, m, n, NoId, "a", TRUE)
    \/ ModuleOrderReqs(Owners, Orders)
    \/ ContentOrderReqs(Owners, Orders)

SpecOrdering == Init /\ [][NextOrdering]_vars

\* ----------------------------------------------------------------- claims
Owner(c) == courses[c].owner

\* C1: an actor who does not own a course never sees it in the manage list,
\* and an update or delete request of theirs addressed to its id leaves the
\* course as it was and ends in not-found.
C1_NonOwnerIsolated ==
    [][/\ request'.op = "manage_course_list" =>
             \A c \in DOMAIN courses :
                 Owner(c) # request'.actor => c \notin response'.listed
       /\ \A c \in DOMAIN courses :
             (/\ request'.op \in {"course_update", "course_delete"}
              /\ request'.id = c
              /\ Owner(c) # request'.actor)
             => /\ c \in DOMAIN courses'
                /\ courses'[c] = courses[c]
                /\ response'.status = "not_found"]_vars

C1_Witness ==
    /\ request.op \in {"course_update", "course_delete"}
    /\ request.id \in DOMAIN courses
    /\ Owner(request.id) # request.actor
    /\ response.status = "not_found"

PermOf(op) ==
    CASE op = "course_create" -> "add_course"
      [] op = "course_update" -> "change_course"
      [] op = "course_delete" -> "delete_course"

\* C2: a course create, update or delete request that would otherwise be
\* carried out (a valid form; for update and delete, a course of the
\* requester) by an actor without the matching grant (add, change, delete) is
\* answered forbidden and changes no course.
C2_PermissionRequired ==
    [][(/\ \/ request'.op = "course_create" /\ request'.arg.valid
           \/ /\ request'.op = "course_update"
              /\ request'.arg.valid
              /\ request'.id \in DOMAIN courses
              /\ Owner(request'.id) = request'.actor
           \/ /\ request'.op = "course_delete"
              /\ request'.id \in DOMAIN courses
              /\ Owner(request'.id) = request'.actor
        /\ ~HasPerm(request'.actor, PermOf(request'.op)))
       => /\ response'.status = "forbidden"
          /\ courses' = courses]_vars

\* What an ordering request of actor a with mapping json must leave in a table
\* whose rows owned by a are `owned`.
Reordered(tbl, owned, json) ==
    [id \in DOMAIN tbl |->
        IF id \in DOMAIN json /\ id \in owned
        THEN [tbl[id] EXCEPT !.order = json[id]]
        ELSE tbl[id]]

ModulesOwnedBy(a) ==
    {m \in DOMAIN modules :
        modules[m].course \in DOMAIN courses /\ Owner(modules[m].course) = a}

ContentsOwnedBy(a) ==
    {k \in DOMAIN contents : contents[k].module \in ModulesOwnedBy(a)}

\* C3: a module-order or content-order request sets the order of every named
\* id the requester owns to the submitted value, leaves every other row (not
\* owned, or not named) as it was, and always answers {saved: OK}.
C3_OrderingFrame ==
    [][/\ request'.op = "module_order" =>
             /\ modules' = Reordered(modules, ModulesOwnedBy(request'.actor), request'.arg)
             /\ UNCHANGED <<courses, contents, items>>
             /\ response' = JsonSaved
       /\ request'.op = "content_order" =>
             /\ contents' = Reordered(contents, ContentsOwnedBy(request'.actor), request'.arg)
             /\ UNCHANGED <<courses, modules, items>>
             /\ response' = JsonSaved]_vars

\* A mixed mapping was served: one named id the requester owns, now at the
\* submitted order, and one named id of another owner, at a different order
\* than submitted.
C3_Witness ==
    /\ request.op = "content_order"
    /\ response = JsonSaved
    /\ \E k1, k2 \in DOMAIN request.arg \cap DOMAIN contents :
          /\ k1 \in ContentsOwnedBy(request.actor)
          /\ k2 \notin ContentsOwnedBy(request.actor)
          /\ contents[k1].order = request.arg[k1]
          /\ contents[k2].order # request.arg[k2]

\* No typed item without a Content that references it.
NoOrphans ==
    \A key \in DOMAIN items : \E k \in DOMAIN contents : ItemKey(k) = key

\* C4: after a content-delete request by the owner of the Content's course
\* neither the Content nor its typed item exists, and no sequence of content
\* create, update and delete requests leaves a typed item that no Content
\* references.
C4_DeleteCascades ==
    [][/\ NoOrphans'
       /\ (/\ request'.op = "content_delete"
           /\ request'.id \in ContentsOwnedBy(request'.actor))
          => /\ request'.id \notin DOMAIN contents'
             /\ ItemKey(request'.id) \notin DOMAIN items']_vars

\* A delete was served for its owner while another Content and its item stay.
C4_Witness ==
    /\ request.op = "content_delete"
    /\ response.status # "not_found"
    /\ request.id \notin DOMAIN contents
    /\ contents # <<>>
    /\ items # <<>>

\* C5: a content-delete request for a Content the requester owns ends with a
\* redirect to the content list of that Content's module.
C5_DeleteRedirects ==
    [][(/\ request'.op = "content_delete"
        /\ request'.id \in ContentsOwnedBy(request'.actor))
       => response' = RedirectContentList(contents[request'.id].module)]_vars

\* C6: a content create/update request (GET or POST) on a module the requester
\* owns whose model_name is not an allowed tag is answered as a validation
\* failure (the form re-rendered with errors) and changes no record.
C6_UnknownTagRejected ==
    [][(/\ request'.op \in {"content_get", "content_post"}
        /\ request'.arg.module \in ModulesOwnedBy(request'.actor)
        /\ request'.arg.model_name \notin AllowedModels)
       => /\ response'.status = "render"
          /\ UNCHANGED db]_vars

\* C7: a valid content POST without id by an actor on a module of theirs
\* persists exactly one new typed item and exactly one new Content, the
\* Content linking the item to that module and the item owned by the actor;
\* with the id of an item of theirs it updates that item, owner the actor, and
\* creates no Content.
C7_ContentPost ==
    [][(/\ request'.op = "content_post"
        /\ request'.arg.valid
        /\ request'.arg.model_name \in AllowedModels
        /\ request'.arg.module \in ModulesOwnedBy(request'.actor))
       => LET a == request'.actor
              n == request'.arg.model_name
              saved == [owner |-> a, title |-> request'.arg.title]
          IN IF request'.id = NoId
             THEN /\ \E key \in DOMAIN items' \ DOMAIN items :
                        /\ items' = Put(items, key, saved)
                        /\ key[1] = n
                        /\ \E k \in DOMAIN contents' \ DOMAIN contents :
                              /\ DOMAIN contents' = DOMAIN contents \cup {k}
                              /\ \A j \in DOMAIN contents : contents'[j] = contents[j]
                              /\ contents'[k].module = request'.arg.module
                              /\ <<contents'[k].ctype, contents'[k].oid>> = key
                  /\ response' = RedirectContentList(request'.arg.module)
             ELSE (/\ <<n, request'.id>> \in DOMAIN items
                   /\ items[<<n, request'.id>>].owner = a)
                  => /\ items' = [items EXCEPT ![<<n, request'.id>>] = saved]
                     /\ contents' = contents
                     /\ response' = RedirectContentList(request'.arg.module)]_vars

\* A create was served: the Content of the new item sits in the addressed
\* module and the item belongs to the requester.
C7_Witness ==
    /\ request.op = "content_post"
    /\ request.id = NoId
    /\ response.status = "redirect"
    /\ \E k \in DOMAIN contents :
          /\ contents[k].module = request.arg.module
          /\ items[ItemKey(k)].owner = request.actor
          /\ Owner(modules[contents[k].module].course) = request.actor

SomeRowInvalid(sub) ==
    \/ \E m \in DOMAIN sub.initial : ~sub.initial[m].del /\ ~sub.initial[m].valid
    \/ \E i \in DOMAIN sub.extra : ~sub.extra[i].valid

\* C8: a module-formset POST on a course of the requester with an invalid row
\* persists nothing and re-renders the form; with every row valid all its
\* deletions, edits and additions are persisted and it redirects to the
\* course list.
C8_FormsetAllOrNothing ==
    [][(/\ request'.op = "module_formset"
        /\ request'.id \in DOMAIN courses
        /\ Owner(request'.id) = request'.actor)
       => LET sub == request'.arg
              c == request'.id
              new == DOMAIN modules' \ DOMAIN modules
          IN IF SomeRowInvalid(sub)
             THEN /\ UNCHANGED db
                  /\ response' = Render
             ELSE /\ response' = RedirectCourseList
                  /\ \A m \in DOMAIN modules :
                        IF m \in DOMAIN sub.initial /\ sub.initial[m].del
                        THEN m \notin DOMAIN modules'
                        ELSE /\ m \in DOMAIN modules'
                             /\ modules'[m].course = modules[m].course
                             /\ modules'[m].order = modules[m].order
                             /\ modules'[m].title =
                                   IF m \in DOMAIN sub.initial
                                   THEN sub.initial[m].title ELSE modules[m].title
                  /\ Cardinality(new) = Len(sub.extra)
                  /\ \A m \in new : modules'[m].course = c
                  /\ \A i \in DOMAIN sub.extra :
                        \E m \in new : modules'[m].title = sub.extra[i].title]_vars

\* An invalid submission was served that also asked for a deletion and an
\* edit: the Module marked for deletion is still there, the other keeps a
\* title that is not the submitted one.
C8_Witness ==
    /\ request.op = "module_formset"
    /\ response = Render
    /\ SomeRowInvalid(request.arg)
    /\ \E m1, m2 \in DOMAIN request.arg.initial \cap DOMAIN modules :
          /\ request.arg.initial[m1].del
          /\ request.arg.initial[m2].valid
          /\ modules[m2].title # request.arg.initial[m2].title

UniqueOrdersIn(mods, c) ==
    \A m1, m2 \in ModulesOf(mods, c) : m1 # m2 => mods[m1].order # mods[m2].order

\* C9 as claimed: no two Modules of one Course ever have the same order.
C9_OrdersUnique == \A c \in DOMAIN courses : UniqueOrdersIn(modules, c)

Injective(f, S) == \A x, y \in S : x # y => f[x] # f[y]

\* C9 as amended: a module-order request by the owner of a course leaves its
\* Modules' orders pairwise distinct when the mapping names every Module of
\* the course with pairwise distinct orders; a module-order request by anyone
\* else leaves the orders of the course's Modules as they were.
C9_OrdersUniqueIfPermutation ==
    [][request'.op = "module_order" =>
          \A c \in DOMAIN courses :
              IF Owner(c) = request'.actor
              THEN (/\ ModulesOf(modules, c) \subseteq DOMAIN request'.arg
                    /\ Injective(request'.arg, ModulesOf(modules, c)))
                   => UniqueOrdersIn(modules', c)
              ELSE \A m \in ModulesOf(modules, c) : modules'[m] = modules[m]]_vars

\* The owner re-ordered both Modules of a course with distinct values.
C9_Witness ==
    /\ request.op = "module_order"
    /\ \E c \in DOMAIN courses :
          /\ Owner(c) = request.actor
          /\ Cardinality(ModulesOf(modules, c)) = 2
          /\ ModulesOf(modules, c) \subseteq DOMAIN request.arg
          /\ Injective(request.arg, ModulesOf(modules, c))
          /\ \A m \in ModulesOf(modules, c) : modules[m].order = request.arg[m]

\* Every Content points to a Module of a Course, and to a typed item whose
\* owner is that Course's owner.
ContentOwnersCoincide ==
    \A k \in DOMAIN contents :
        /\ contents[k].module \in DOMAIN modules
        /\ modules[contents[k].module].course \in DOMAIN courses
        /\ ItemKey(k) \in DOMAIN items
        /\ items[ItemKey(k)].owner = Owner(modules[contents[k].module].course)

\* C10: through requests of every kind a Course keeps the owner it was created
\* with, and the typed item of every Content is owned by the owner of the
\* Course of the Content's Module.
C10_OwnersStable ==
    [][/\ \A c \in DOMAIN courses \cap DOMAIN courses' :
             courses'[c].owner = courses[c].owner
       /\ ContentOwnersCoincide']_vars

\* The other owner asked to update an existing item through a module of
\* theirs, while a Content of the first owner's course holds it.
C10_Witness ==
    /\ request.op = "content_post"
    /\ request.id # NoId
    /\ request.arg.module \in ModulesOwnedBy(request.actor)
    /\ \E k \in DOMAIN contents :
          /\ ItemKey(k) = <<request.arg.model_name, request.id>>
          /\ items[ItemKey(k)].owner # request.actor
====
